---------------------------- MODULE Spec2Model ----------------------------
(***************************************************************************)
(* Model of the mini ETL tool: the per-file / per-record loop of main(),   *)
(* schema selection, schema-driven transformation, canonical validation    *)
(* and the schema drift tracker.                                           *)
(*                                                                         *)
(* Text that the code takes apart or builds (file names, source paths,     *)
(* record keys, tracker paths) is a sequence of one-character strings.     *)
(* Text that the code only tests (string values of a record) is an atomic  *)
(* string whose Python conversions are given by tables over the finite     *)
(* universe of values used.                                                *)
(* Numbers are fixed point, in thousandths (1.0 = 1000): round(x, 2) is    *)
(* rounding to a multiple of 10.                                           *)
(***************************************************************************)
EXTENDS Integers, Sequences, FiniteSets, TLC

VARIABLES
    args,             \* argparse namespace: format, schema_mode, schema_name
    dir,              \* content of cfg.raw_dir: a set of files
    registry,         \* SchemaRegistry._schemas: schema_name -> SchemaDef
    pc,               \* position of main(): "start", "file", "rec", "done"
    files,            \* list_input_files(...)
    fi,               \* index of the current file of `for fp in files`
    schema,           \* schema selected for the current file
    records,          \* records returned by the reader for the current file
    ri,               \* index of the current record of `for rec in records`
    stats,            \* RunStats
    processed_files,
    failed_files,
    clean_f,          \* lines written to the clean output
    bad_f,            \* lines written to the quarantine output
    observed,         \* SchemaTracker.observed : path -> set of type names
    files_seen,       \* SchemaTracker.files_seen
    obs_log,          \* history: the records handed to observe so far
    fn_in,            \* input of the pure function under check
    fn_out            \* its result

mainVars == <<args, dir, registry, pc, files, fi, schema, records, ri, stats,
              processed_files, failed_files, clean_f, bad_f>>
trackerVars == <<observed, files_seen, obs_log>>
fnVars == <<fn_in, fn_out>>
vars == <<mainVars, trackerVars, fnVars>>

\* ------------------------------------------------------------------------
\* Text
\* ------------------------------------------------------------------------

\* The characters used, in code point order ($ . 0-9 [ ] _ a-z).
CharOrder ==
    <<"$", ".", "1", "2", "[", "]", "_",
      "a", "b", "c", "d", "e", "g", "i", "j", "l", "m", "n", "o", "p", "r",
      "s", "t", "u", "v", "w", "x", "y", "z">>

Ord(c) == CHOOSE i \in 1..Len(CharOrder) : CharOrder[i] = c

\* Python's str < str : lexicographic by code point.
RECURSIVE StrLess(_, _)
StrLess(a, b) ==
    IF a = <<>> THEN b # <<>>
    ELSE IF b = <<>> THEN FALSE
    ELSE IF a[1] = b[1] THEN StrLess(Tail(a), Tail(b))
    ELSE Ord(a[1]) < Ord(b[1])

FirstIdx(s, c) ==
    IF \E i \in 1..Len(s) : s[i] = c
    THEN CHOOSE i \in 1..Len(s) : s[i] = c /\ \A j \in 1..(i - 1) : s[j] # c
    ELSE 0

LastIdx(s, c) ==
    IF \E i \in 1..Len(s) : s[i] = c
    THEN CHOOSE i \in 1..Len(s) : s[i] = c /\ \A j \in (i + 1)..Len(s) : s[j] # c
    ELSE 0

Contains(s, c) == \E i \in 1..Len(s) : s[i] = c

\* s.split(c)
RECURSIVE Split(_, _)
Split(s, c) ==
    LET i == FirstIdx(s, c)
    IN IF i = 0 THEN <<s>>
       ELSE <<SubSeq(s, 1, i - 1)>> \o Split(SubSeq(s, i + 1, Len(s)), c)

\* s.split(c, 1)[0]
SplitFirst(s, c) ==
    LET i == FirstIdx(s, c)
    IN IF i = 0 THEN s ELSE SubSeq(s, 1, i - 1)

\* Path.suffix : from the last dot of the name on (empty when there is none
\* or when the name only starts with it).
Suffix(name) ==
    LET i == LastIdx(name, ".")
    IN IF i <= 1 THEN <<>> ELSE SubSeq(name, i, Len(name))

\* Path.stem
Stem(name) ==
    LET i == LastIdx(name, ".")
    IN IF i <= 1 THEN name ELSE SubSeq(name, 1, i - 1)

EndsWith(s, suf) ==
    /\ Len(s) >= Len(suf)
    /\ SubSeq(s, Len(s) - Len(suf) + 1, Len(s)) = suf

DotJson == <<".", "j", "s", "o", "n">>
DotCsv == <<".", "c", "s", "v">>

\* ------------------------------------------------------------------------
\* JSON-like values (RawRecord, CanonicalRecord)
\* ------------------------------------------------------------------------

JNull == [t |-> "null"]
JBool(b) == [t |-> "bool", b |-> b]
JInt(n) == [t |-> "int", n |-> n]
JFloat(m) == [t |-> "float", m |-> m]
JStr(s) == [t |-> "str", s |-> s]
JObj(f) == [t |-> "object", o |-> f]
JArr(a) == [t |-> "array", a |-> a]

EmptyDict == [k \in {} |-> JNull]

IsDict(v) == v.t = "object"
IsList(v) == v.t = "array"
IsNone(v) == v.t = "null"

\* dict.get(key) on the dict carried by an object value
DictGet(d, key) == IF key \in DOMAIN d THEN d[key] ELSE JNull

\* dict.pop(key, None)
DictPop(d, key) == [k \in (DOMAIN d) \ {key} |-> d[k]]

\* d[key] = v
DictSet(d, key, v) == [k \in (DOMAIN d) \cup {key} |-> IF k = key THEN v ELSE d[k]]

\* ------------------------------------------------------------------------
\* Python conversions of values, over the values used
\* ------------------------------------------------------------------------

Fail == [ok |-> FALSE]
Ok(x) == [ok |-> TRUE, v |-> x]

\* str(v) of a string or an integer; the decimal text of the integers used.
PyStr(v) ==
    IF v.t = "str" THEN v.s
    ELSE IF v.t = "int" /\ v.n = 20260110 THEN "20260110"
    ELSE IF v.t = "int" /\ v.n = 5 THEN "5"
    ELSE IF v.t = "int" /\ v.n = -1 THEN "-1"
    ELSE "<repr>"

\* s.strip() == ""
IsBlank(s) == s \in {"", "  "}

\* "@" in s
HasAt(s) == s \in {"a@b.com", "x@y"}

\* s.replace("Z", "+00:00")
ReplaceZ(s) ==
    IF s = "2026-01-10T08:30:00Z" THEN "2026-01-10T08:30:00+00:00"
    ELSE IF s = "2026-01-10Z08:30:00" THEN "2026-01-10+00:0008:30:00"
    ELSE IF s = "Zzz" THEN "+00:00zz"
    ELSE s

\* datetime.fromisoformat(s).date().isoformat(); Fail when it raises.  The
\* texts accepted are those of Python 3.11 and later (a trailing Z, the
\* basic format YYYYMMDD and any one character between date and time
\* included).
FromIsoFormat(s) ==
    IF s \in {"2026-01-10", "2026-01-10T08:30:00+00:00",
              "2026-01-10T08:30:00Z", "20260110", "2026-01-10Z08:30:00"}
    THEN Ok("2026-01-10")
    ELSE IF s = "2025-12-31" THEN Ok("2025-12-31")
    ELSE Fail

\* float(s) of a string, in thousandths
StrToFloat(s) ==
    IF s = "10.5" THEN Ok(10500)
    ELSE IF s = "4" THEN Ok(4000)
    ELSE IF s = "0.004" THEN Ok(4)
    ELSE IF s = "-1" THEN Ok(-1000)
    ELSE Fail

\* int(s) of a string
StrToInt(s) ==
    IF s = "4" THEN Ok(4)
    ELSE IF s = "-1" THEN Ok(-1)
    ELSE Fail

\* float(v); Fail when it raises (None, a dict, a list, a non-numeric string)
ToFloat(v) ==
    IF v.t = "int" THEN Ok(v.n * 1000)
    ELSE IF v.t = "float" THEN Ok(v.m)
    ELSE IF v.t = "bool" THEN Ok(IF v.b THEN 1000 ELSE 0)
    ELSE IF v.t = "str" THEN StrToFloat(v.s)
    ELSE Fail

\* int(v): a float is truncated toward zero
ToInt(v) ==
    IF v.t = "int" THEN Ok(v.n)
    ELSE IF v.t = "float"
         THEN Ok(IF v.m >= 0 THEN v.m \div 1000 ELSE -((-v.m) \div 1000))
    ELSE IF v.t = "bool" THEN Ok(IF v.b THEN 1 ELSE 0)
    ELSE IF v.t = "str" THEN StrToInt(v.s)
    ELSE Fail

\* round(x, 2) of a value in thousandths.  Python rounds the binary value, so
\* an exact decimal tie has no fixed direction; the amounts used never sum to
\* a tie and the tie is resolved to even here.
Round2(m) ==
    LET r == m % 10
    IN IF r < 5 THEN m - r
       ELSE IF r > 5 THEN m - r + 10
       ELSE IF ((m - r) \div 10) % 2 = 0 THEN m - r ELSE m - r + 10

\* ------------------------------------------------------------------------
\* schema_registry.py
\* ------------------------------------------------------------------------

\* get_by_path(obj, path)
RECURSIVE get_by_path_parts(_, _)
get_by_path_parts(cur, parts) ==
    IF parts = <<>> THEN cur
    ELSE IF ~IsDict(cur) THEN JNull
    ELSE LET nxt == DictGet(cur.o, Head(parts))
         IN IF IsNone(nxt) THEN JNull
            ELSE get_by_path_parts(nxt, Tail(parts))

get_by_path(obj, path) == get_by_path_parts(obj, Split(path, "."))

\* SchemaDef.  field_map is the dict in insertion order, a sequence of
\* <<source path, canonical key>> with distinct source paths.  orders_path
\* and order_amount_path None or "" are both <<>>: the code only tests their
\* truth value.
SchemaDef(name, fmap, opath, apath) ==
    [schema_name |-> name, version |-> 1, required_fields |-> <<>>,
     field_map |-> fmap, orders_path |-> opath, order_amount_path |-> apath]

\* SchemaRegistry.get(schema_name); Fail for the KeyError
RegistryGet(reg, schema_name) ==
    IF schema_name \notin DOMAIN reg THEN Fail ELSE Ok(reg[schema_name])

\* ------------------------------------------------------------------------
\* transformer_schema.py
\* ------------------------------------------------------------------------

\* normalize_iso_date(value); Fail when fromisoformat raises
normalize_iso_date(value) ==
    IF IsNone(value) THEN Ok(JNull)
    ELSE LET d == FromIsoFormat(ReplaceZ(PyStr(value)))
         IN IF d.ok THEN Ok(JStr(d.v)) ELSE Fail

\* rec.get(p) for a plain key, get_by_path(rec, p) for a dotted one
Lookup(rec, p) ==
    IF Contains(p, ".") THEN get_by_path(JObj(rec), p) ELSE DictGet(rec, p)

\* the loop over field_map with every mapped source, dotted or not, removed
\* from extras by its top-level key
RECURSIVE MapFields_PopTop(_, _, _)
MapFields_PopTop(fmap, i, st) ==
    IF i > Len(fmap) THEN st
    ELSE LET src_path == fmap[i][1]
             dest_key == fmap[i][2]
             val == Lookup(st.rec, src_path)
             out1 == DictSet(st.out, dest_key, val)
             ex1 == DictPop(st.extras, Head(Split(src_path, ".")))
         IN MapFields_PopTop(fmap, i + 1, [out |-> out1, extras |-> ex1, rec |-> st.rec])

\* the loop over schema.field_map.items(): st = [out, extras, rec], where
\* extras starts as dict(rec), a copy, and rec is the caller's dict
RECURSIVE MapFields(_, _, _)
MapFields(fmap, i, st) ==
    IF i > Len(fmap) THEN st
    ELSE LET src_path == fmap[i][1]
             dest_key == fmap[i][2]
             val == Lookup(st.rec, src_path)
             out1 == DictSet(st.out, dest_key, val)
             ex1 == IF ~Contains(src_path, ".") /\ src_path \in DOMAIN st.extras
                    THEN DictPop(st.extras, src_path)
                    ELSE st.extras
         IN MapFields(fmap, i + 1, [out |-> out1, extras |-> ex1, rec |-> st.rec])

KeyAmount == <<"a", "m", "o", "u", "n", "t">>

\* the loop over the orders, rounding at every addition
RECURSIVE SumOrders_RoundEach(_, _, _, _)
SumOrders_RoundEach(orders, amount_key, i, acc) ==
    IF i > Len(orders) THEN acc
    ELSE LET o == orders[i]
         IN IF ~IsDict(o) THEN SumOrders_RoundEach(orders, amount_key, i + 1, acc)
            ELSE LET amt == DictGet(o.o, amount_key)
                 IN IF IsNone(amt) THEN SumOrders_RoundEach(orders, amount_key, i + 1, acc)
                    ELSE LET f == ToFloat(amt)
                         IN IF f.ok
                            THEN SumOrders_RoundEach(orders, amount_key, i + 1,
                                           [total |-> Round2(acc.total + f.v),
                                            count |-> acc.count + 1])
                            ELSE SumOrders_RoundEach(orders, amount_key, i + 1, acc)

\* the loop over the orders: acc = [total, count]
RECURSIVE SumOrders(_, _, _, _)
SumOrders(orders, amount_key, i, acc) ==
    IF i > Len(orders) THEN acc
    ELSE LET o == orders[i]
         IN IF ~IsDict(o) THEN SumOrders(orders, amount_key, i + 1, acc)
            ELSE LET amt == DictGet(o.o, amount_key)
                 IN IF IsNone(amt) THEN SumOrders(orders, amount_key, i + 1, acc)
                    ELSE LET f == ToFloat(amt)
                         IN IF f.ok
                            THEN SumOrders(orders, amount_key, i + 1,
                                           [total |-> acc.total + f.v,
                                            count |-> acc.count + 1])
                            ELSE SumOrders(orders, amount_key, i + 1, acc)

\* step 3 of transform_with_schema: [total, count] before rounding
Aggregate(rec, sch) ==
    IF sch.orders_path = <<>> THEN [total |-> 0, count |-> 0]
    ELSE LET orders == Lookup(rec, sch.orders_path)
             key == IF sch.order_amount_path = <<>> THEN KeyAmount
                    ELSE sch.order_amount_path
         IN IF IsList(orders)
            THEN SumOrders(orders.a, key, 1, [total |-> 0, count |-> 0])
            ELSE [total |-> 0, count |-> 0]

\* transform_with_schema(rec, schema): [out, rec], the canonical dict that is
\* returned and the caller's dict after the call
TransformRun(rec, sch) ==
    LET st == MapFields(sch.field_map, 1,
                        [out |-> EmptyDict, extras |-> rec, rec |-> rec])
        out1 == IF "signup_date" \in DOMAIN st.out
                THEN LET n == normalize_iso_date(st.out["signup_date"])
                     IN IF n.ok THEN DictSet(st.out, "signup_date", n.v) ELSE st.out
                ELSE st.out
        agg == Aggregate(st.rec, sch)
        out2 == DictSet(out1, "total_order_value", JFloat(Round2(agg.total)))
        out3 == DictSet(out2, "order_count", JInt(agg.count))
    IN [out |-> DictSet(out3, "extras", JObj(st.extras)), rec |-> st.rec]

\* the value transform_with_schema(rec, schema) returns
transform_with_schema(rec, sch) == TransformRun(rec, sch).out

\* ------------------------------------------------------------------------
\* Canonical validation
\* ------------------------------------------------------------------------

ValidationResult(errors) == [is_valid |-> Len(errors) = 0, errors |-> errors]

ErrUserId(canon) ==
    LET user_id == DictGet(canon, "user_id")
    IN IF IsNone(user_id) \/ (user_id.t = "str" /\ IsBlank(user_id.s))
       THEN <<"missing user_id">> ELSE <<>>

ErrEmail(canon) ==
    LET email == DictGet(canon, "email")
    IN IF IsNone(email) \/ ~HasAt(PyStr(email))
       THEN <<"invalid email">> ELSE <<>>

ErrSignupDate(canon) ==
    LET signup_date == DictGet(canon, "signup_date")
    IN IF IsNone(signup_date) \/ ~FromIsoFormat(PyStr(signup_date)).ok
       THEN <<"invalid signup_date">> ELSE <<>>

ErrTotal(canon) ==
    LET tov == DictGet(canon, "total_order_value")
    IN IF ~IsNone(tov) /\ ~ToFloat(tov).ok
       THEN <<"total_order_value not numeric">> ELSE <<>>

ErrOrderCount(canon) ==
    LET oc == DictGet(canon, "order_count")
    IN IF IsNone(oc) THEN <<>>
       ELSE IF ~ToInt(oc).ok THEN <<"order_count not an integer">>
       ELSE IF ToInt(oc).v < 0 THEN <<"order_count must be >= 0">>
       ELSE <<>>

\* main.validate_canonical_record(canon): the validation main() applies
validate_canonical_record(canon) ==
    ValidationResult(ErrUserId(canon) \o ErrEmail(canon) \o ErrSignupDate(canon)
                     \o ErrTotal(canon))

\* validator.validate_canonical(canon)
validate_canonical(canon) ==
    ValidationResult(ErrUserId(canon) \o ErrEmail(canon) \o ErrSignupDate(canon)
                     \o ErrTotal(canon) \o ErrOrderCount(canon))

\* ------------------------------------------------------------------------
\* schema_tracker.py
\* ------------------------------------------------------------------------

\* _type_name(v): the tag of a JSON-like value is its Python type name
_type_name(v) == v.t

\* the seven type names in lexicographic order, for sorted()
TypeOrder == <<"array", "bool", "float", "int", "null", "object", "str">>
TypeRank(t) == CHOOSE i \in 1..Len(TypeOrder) : TypeOrder[i] = t
TypeLess(a, b) == TypeRank(a) < TypeRank(b)

\* list(S): the elements of a set in some order
RECURSIVE SetToSeq(_)
SetToSeq(S) ==
    IF S = {} THEN <<>>
    ELSE LET x == CHOOSE x \in S : TRUE IN <<x>> \o SetToSeq(S \ {x})

\* sorted(list(S)) under a strict total order
SortedSeq(S, Less(_, _)) == SortSeq(SetToSeq(S), Less)

Dollar == <<"$">>
Brackets == <<"[", "]">>

\* f"{prefix}.{k}" if prefix else str(k)
KeyPath(prefix, k) == IF prefix # <<>> THEN prefix \o <<".">> \o k ELSE k

\* f"{prefix}[]" if prefix else "$[]"
ArrPath(prefix) == IF prefix # <<>> THEN prefix \o Brackets ELSE Dollar \o Brackets

\* _walk(obj, prefix, max_array_samples): the sequence of (path, type_name)
\* it yields.  The keys of a dict are visited in sorted order here; the code
\* visits them in insertion order, which observe() does not keep.
RECURSIVE _walk(_, _, _)
RECURSIVE WalkItems(_, _, _, _)
RECURSIVE WalkSamples(_, _, _, _)
_walk(obj, prefix, max_array_samples) ==
    LET t == _type_name(obj)
        here == <<<<IF prefix # <<>> THEN prefix ELSE Dollar, t>>>>
    IN IF IsDict(obj)
       THEN here \o WalkItems(obj.o, SortedSeq(DOMAIN obj.o, StrLess), prefix,
                              max_array_samples)
       ELSE IF IsList(obj)
       THEN LET arr_path == ArrPath(prefix)
                n == IF Len(obj.a) < max_array_samples THEN Len(obj.a)
                     ELSE max_array_samples
            IN here \o <<<<arr_path, "array">>>>
                    \o WalkSamples(SubSeq(obj.a, 1, n), 1, arr_path, max_array_samples)
       ELSE here

\* for k, v in obj.items(): yield from _walk(v, path)
WalkItems(d, keys, prefix, max_array_samples) ==
    IF keys = <<>> THEN <<>>
    ELSE _walk(d[Head(keys)], KeyPath(prefix, Head(keys)), max_array_samples)
         \o WalkItems(d, Tail(keys), prefix, max_array_samples)

\* for item in obj[:max_array_samples]: yield from _walk(item, arr_path)
WalkSamples(items, i, arr_path, max_array_samples) ==
    IF i > Len(items) THEN <<>>
    ELSE _walk(items[i], arr_path, max_array_samples)
         \o WalkSamples(items, i + 1, arr_path, max_array_samples)

\* the loop of observe() with an assignment in place of setdefault().add()
RECURSIVE AddPairs_Overwrite(_, _, _)
AddPairs_Overwrite(obs, pairs, i) ==
    IF i > Len(pairs) THEN obs
    ELSE AddPairs_Overwrite(DictSet(obs, pairs[i][1], {pairs[i][2]}), pairs, i + 1)

\* the loop of observe(): observed.setdefault(path, set()).add(t)
RECURSIVE AddPairs(_, _, _)
AddPairs(obs, pairs, i) ==
    IF i > Len(pairs) THEN obs
    ELSE LET path == pairs[i][1]
             t == pairs[i][2]
             cur == IF path \in DOMAIN obs THEN obs[path] ELSE {}
         IN AddPairs(DictSet(obs, path, cur \cup {t}), pairs, i + 1)

\* observe() sampling two elements of every array
observe_two_samples(obs, seen, record, source_file) ==
    [observed |-> AddPairs(obs, _walk(record, <<>>, 2), 1),
     files_seen |-> seen \cup {source_file}]

\* SchemaTracker.observe(record, source_file): the new [observed, files_seen]
observe(obs, seen, record, source_file) ==
    [observed |-> AddPairs(obs, _walk(record, <<>>, 1), 1),
     files_seen |-> seen \cup {source_file}]

\* SchemaTracker.snapshot(): the dict in insertion order, a sequence of
\* <<path, sorted type list>> sorted by path
snapshot(obs) ==
    LET paths == SortedSeq(DOMAIN obs, StrLess)
    IN [i \in 1..Len(paths) |-> <<paths[i], SortedSeq(obs[paths[i]], TypeLess)>>]

\* set(list) of a type list
ListSet(q) == {q[i] : i \in 1..Len(q)}

\* the type_changes entry of a path
TypeChange(k, b, c) ==
    [path |-> k, baseline_types |-> SortedSeq(b, TypeLess),
     current_types |-> SortedSeq(c, TypeLess)]

\* SchemaTracker.diff with new_paths = sorted(curr_keys), the set difference
\* left out
diff_NoSetDifference(baseline, current) ==
    LET base_keys == DOMAIN baseline
        curr_keys == DOMAIN current
        shared == SortedSeq(base_keys \cap curr_keys, StrLess)
        Differs(k) == ListSet(baseline[k]) # ListSet(current[k])
        changed == SelectSeq(shared, Differs)
    IN [new_paths |-> SortedSeq(curr_keys, StrLess),
        missing_paths |-> SortedSeq(base_keys \ curr_keys, StrLess),
        type_changes |->
            [i \in 1..Len(changed) |->
                TypeChange(changed[i], ListSet(baseline[changed[i]]),
                           ListSet(current[changed[i]]))]]

\* SchemaTracker.diff(baseline, current): both are dicts path -> type list
diff(baseline, current) ==
    LET base_keys == DOMAIN baseline
        curr_keys == DOMAIN current
        shared == SortedSeq(base_keys \cap curr_keys, StrLess)
        Differs(k) == ListSet(baseline[k]) # ListSet(current[k])
        changed == SelectSeq(shared, Differs)
    IN [new_paths |-> SortedSeq(curr_keys \ base_keys, StrLess),
        missing_paths |-> SortedSeq(base_keys \ curr_keys, StrLess),
        type_changes |->
            [i \in 1..Len(changed) |->
                TypeChange(changed[i], ListSet(baseline[changed[i]]),
                           ListSet(current[changed[i]]))]]

\* ------------------------------------------------------------------------
\* reader.py
\* ------------------------------------------------------------------------

\* The content of a .json file is [ok |-> FALSE] when json.load raises and
\* [ok |-> TRUE, v |-> value] otherwise.  The content of a .csv file is
\* [header, rows]: header is FALSE when DictReader.fieldnames is None, and a
\* row is [extra, row] with extra TRUE when DictReader puts the None key in.

\* read_json_array(path); Fail when it raises
read_json_array(data) ==
    IF ~data.ok THEN Fail
    ELSE IF ~IsList(data.v) THEN Fail
    ELSE IF \E i \in 1..Len(data.v.a) : ~IsDict(data.v.a[i]) THEN Fail
    ELSE Ok(data.v.a)

\* read_csv_rows(path); Fail when it raises
read_csv_rows(data) ==
    IF ~data.header THEN Fail
    ELSE IF \E i \in 1..Len(data.rows) : data.rows[i].extra THEN Fail
    ELSE Ok([i \in 1..Len(data.rows) |-> JObj(data.rows[i].row)])

\* ------------------------------------------------------------------------
\* main.py
\* ------------------------------------------------------------------------

\* pick_reader(fmt, fp): which of the two readers
pick_reader(fmt, name) ==
    IF fmt = "json" THEN "json"
    ELSE IF fmt = "csv" THEN "csv"
    ELSE IF Suffix(name) = DotCsv THEN "csv"
    ELSE "json"

\* reader(fp)
Read(fmt, fp) ==
    IF pick_reader(fmt, fp.name) = "csv" THEN read_csv_rows(fp.data)
    ELSE read_json_array(fp.data)

NameLess(a, b) == StrLess(a.name, b.name)

\* list_input_files without the sorted(): the files in descending order
list_input_files_unsorted(raw_dir, fmt) ==
    LET json == {f \in raw_dir : EndsWith(f.name, DotJson)}
        csv == {f \in raw_dir : EndsWith(f.name, DotCsv)}
        NameMore(x, y) == StrLess(y.name, x.name)
    IN IF fmt = "json" THEN SortedSeq(json, NameMore)
       ELSE IF fmt = "csv" THEN SortedSeq(csv, NameMore)
       ELSE SortSeq(SetToSeq(json) \o SetToSeq(csv), NameMore)

\* list_input_files(raw_dir, fmt)
list_input_files(raw_dir, fmt) ==
    LET json == {f \in raw_dir : EndsWith(f.name, DotJson)}
        csv == {f \in raw_dir : EndsWith(f.name, DotCsv)}
    IN IF fmt = "json" THEN SortedSeq(json, NameLess)
       ELSE IF fmt = "csv" THEN SortedSeq(csv, NameLess)
       ELSE SortSeq(SetToSeq(json) \o SetToSeq(csv), NameLess)

\* schema_for_file(fp, mode, fixed_name, registry); Fail when it raises.
\* fixed_name None or "" is <<>>.
schema_for_file(name, mode, fixed_name, reg) ==
    IF mode = "fixed"
    THEN IF fixed_name = <<>> THEN Fail ELSE RegistryGet(reg, fixed_name)
    ELSE RegistryGet(reg, SplitFirst(name, "_"))

RunStats ==
    [files_found |-> 0, files_processed |-> 0, files_failed |-> 0,
     records_seen |-> 0, records_clean |-> 0, records_bad |-> 0]

\* the quarantine line of a row that is not a dict
NotDictLine(name, sch, rec) ==
    [source_file |-> name, schema |-> sch.schema_name,
     errors |-> <<"record is not an object/dict">>, record |-> rec]

\* the quarantine line of a row that fails validation
BadLine(name, sch, v, rec, canon) ==
    [source_file |-> name, schema |-> sch.schema_name, errors |-> v.errors,
     record |-> rec, canonical_preview |-> canon]

\* ------------------------------------------------------------------------
\* The inputs of a run: schemas, records, files, arguments
\* ------------------------------------------------------------------------

MaxFiles == 2       \* files in the input directory

K_id == <<"i", "d">>
K_uid == <<"u", "i", "d">>
K_email == <<"e", "m", "a", "i", "l">>
K_mail == <<"m", "a", "i", "l">>
K_signup == <<"s", "i", "g", "n", "u", "p">>
K_date == <<"d", "a", "t", "e">>
K_orders == <<"o", "r", "d", "e", "r", "s">>
K_a == <<"a">>

N_crm == <<"c", "r", "m">>
N_web == <<"w", "e", "b">>
N_nope == <<"n", "o", "p", "e">>

SchemaCrm ==
    SchemaDef(N_crm,
              << <<K_id, "user_id">>, <<K_email, "email">>,
                 <<K_signup, "signup_date">> >>,
              K_orders, <<>>)

SchemaWeb ==
    SchemaDef(N_web,
              << <<K_uid, "user_id">>, <<K_mail, "email">>,
                 <<K_date, "signup_date">> >>,
              <<>>, <<>>)

\* the registry after load_all()
LoadedRegistry == (N_crm :> SchemaCrm) @@ (N_web :> SchemaWeb)

Amt(v) == JObj(KeyAmount :> v)

RecA ==
    JObj((K_id :> JStr("u1")) @@ (K_email :> JStr("a@b.com"))
         @@ (K_signup :> JStr("2026-01-10"))
         @@ (K_orders :> JArr(<<Amt(JStr("10.5")), Amt(JStr("bad")), Amt(JInt(4))>>)))
RecB ==
    JObj((K_id :> JStr("u2")) @@ (K_email :> JStr("nope"))
         @@ (K_signup :> JStr("2026-01-10")))
RecC ==
    JObj((K_id :> JStr("u3")) @@ (K_email :> JStr("x@y"))
         @@ (K_signup :> JStr("2026-01-10T08:30:00Z")))
RecD ==
    JObj((K_id :> JStr("u4")) @@ (K_email :> JStr("x@y"))
         @@ (K_signup :> JStr("not-a-date")))
RecE ==
    JObj((K_id :> JStr("u6")) @@ (K_email :> JStr("e@f"))
         @@ (K_signup :> JStr("2026-01-10Z08:30:00")))

RowA == (K_uid :> JStr("u5")) @@ (K_mail :> JStr("a@b.com")) @@ (K_date :> JStr("2025-12-31"))
RowB == (K_uid :> JStr("  ")) @@ (K_mail :> JStr("x@y")) @@ (K_date :> JStr("2026-01-10"))

JsonText(v) == [ok |-> TRUE, v |-> v]
BadJsonText == [ok |-> FALSE]
CsvText(header, rows) == [header |-> header, rows |-> rows]
CsvRow(row) == [extra |-> FALSE, row |-> row]
CsvRowExtra(row) == [extra |-> TRUE, row |-> row]

F_crm_1 == <<"c", "r", "m", "_", "1", ".", "j", "s", "o", "n">>
F_crm_2 == <<"c", "r", "m", "_", "2", ".", "j", "s", "o", "n">>
F_crm == <<"c", "r", "m", ".", "j", "s", "o", "n">>
F_web_1 == <<"w", "e", "b", "_", "1", ".", "c", "s", "v">>
F_aaa_1 == <<"a", "a", "a", "_", "1", ".", "j", "s", "o", "n">>

File(name, data) == [name |-> name, data |-> data]

\* the files an input directory may hold
FileUniverse ==
    { File(F_crm_1, JsonText(JArr(<<RecA, RecB>>))),
      File(F_crm_1, JsonText(JArr(<<RecA, JInt(5), RecC>>))),
      File(F_crm_1, BadJsonText),
      File(F_crm_2, JsonText(JArr(<<RecC, RecD>>))),
      File(F_crm_2, JsonText(JArr(<<>>))),
      File(F_crm_2, JsonText(JArr(<<RecD, RecE>>))),
      File(F_crm, JsonText(JArr(<<RecC>>))),
      File(F_crm, JsonText(JObj(K_a :> JInt(1)))),
      File(F_web_1, CsvText(TRUE, <<CsvRow(RowA), CsvRow(RowB)>>)),
      File(F_web_1, CsvText(FALSE, <<>>)),
      File(F_web_1, CsvText(TRUE, <<CsvRow(RowA), CsvRowExtra(RowB)>>)),
      File(F_aaa_1, JsonText(JArr(<<RecA>>))) }

\* a directory holds at most one file of a name
Directories ==
    {d \in SUBSET FileUniverse :
        /\ Cardinality(d) <= MaxFiles
        /\ \A f, g \in d : f.name = g.name => f = g}

Arguments ==
    {[format |-> f, schema_mode |-> "filename", schema_name |-> <<>>] :
        f \in {"auto", "json", "csv"}}
    \cup
    {[format |-> f, schema_mode |-> "fixed", schema_name |-> n] :
        f \in {"auto", "json", "csv"}, n \in {<<>>, N_crm, N_nope}}

NoSchema == [schema_name |-> <<>>]
NoInput == [fn |-> "none"]

TrackerIdle ==
    /\ observed = EmptyDict
    /\ files_seen = {}
    /\ obs_log = <<>>

FnIdle ==
    /\ fn_in = NoInput
    /\ fn_out = NoInput

\* ------------------------------------------------------------------------
\* main(): the run
\* ------------------------------------------------------------------------

MainInit ==
    /\ args \in Arguments
    /\ dir \in Directories
    /\ registry = LoadedRegistry
    /\ pc = "start"
    /\ files = <<>>
    /\ fi = 1
    /\ schema = NoSchema
    /\ records = <<>>
    /\ ri = 1
    /\ stats = RunStats
    /\ processed_files = <<>>
    /\ failed_files = <<>>
    /\ clean_f = <<>>
    /\ bad_f = <<>>
    /\ TrackerIdle
    /\ FnIdle

\* files = list_input_files(...); stats.files_found = len(files)
ListFiles ==
    /\ pc = "start"
    /\ files' = list_input_files(dir, args.format)
    /\ stats' = [stats EXCEPT !.files_found = Len(files')]
    /\ fi' = 1
    /\ pc' = "file"
    /\ UNCHANGED <<args, dir, registry, schema, records, ri, processed_files,
                   failed_files, clean_f, bad_f>>
    /\ UNCHANGED <<trackerVars, fnVars>>

Selected == schema_for_file(files[fi].name, args.schema_mode, args.schema_name, registry)

\* schema_for_file raises and the exception leaves the file loop
SchemaResolutionFailed_Abort ==
    /\ pc = "file"
    /\ fi <= Len(files)
    /\ ~Selected.ok
    /\ stats' = [stats EXCEPT !.files_failed = @ + 1]
    /\ failed_files' = Append(failed_files, files[fi].name)
    /\ fi' = Len(files) + 1
    /\ UNCHANGED <<args, dir, registry, pc, files, schema, records, ri,
                   processed_files, clean_f, bad_f>>
    /\ UNCHANGED <<trackerVars, fnVars>>

\* schema_for_file raises: the file is counted as failed and skipped
SchemaResolutionFailed ==
    /\ pc = "file"
    /\ fi <= Len(files)
    /\ ~Selected.ok
    /\ stats' = [stats EXCEPT !.files_failed = @ + 1]
    /\ failed_files' = Append(failed_files, files[fi].name)
    /\ fi' = fi + 1
    /\ UNCHANGED <<args, dir, registry, pc, files, schema, records, ri,
                   processed_files, clean_f, bad_f>>
    /\ UNCHANGED <<trackerVars, fnVars>>

\* the reader raises after the file was counted as processed
ReadFailed_CountedBoth ==
    /\ pc = "file"
    /\ fi <= Len(files)
    /\ Selected.ok
    /\ ~Read(args.format, files[fi]).ok
    /\ schema' = Selected.v
    /\ stats' = [stats EXCEPT !.files_processed = @ + 1, !.files_failed = @ + 1]
    /\ processed_files' = Append(processed_files, files[fi].name)
    /\ failed_files' = Append(failed_files, files[fi].name)
    /\ fi' = fi + 1
    /\ UNCHANGED <<args, dir, registry, pc, files, records, ri, clean_f, bad_f>>
    /\ UNCHANGED <<trackerVars, fnVars>>

\* the reader raises: the file is counted as failed and skipped
ReadFailed ==
    /\ pc = "file"
    /\ fi <= Len(files)
    /\ Selected.ok
    /\ ~Read(args.format, files[fi]).ok
    /\ schema' = Selected.v
    /\ stats' = [stats EXCEPT !.files_failed = @ + 1]
    /\ failed_files' = Append(failed_files, files[fi].name)
    /\ fi' = fi + 1
    /\ UNCHANGED <<args, dir, registry, pc, files, records, ri,
                   processed_files, clean_f, bad_f>>
    /\ UNCHANGED <<trackerVars, fnVars>>

\* the reader returns the records of the file
ReadFile ==
    /\ pc = "file"
    /\ fi <= Len(files)
    /\ Selected.ok
    /\ Read(args.format, files[fi]).ok
    /\ schema' = Selected.v
    /\ records' = Read(args.format, files[fi]).v
    /\ stats' = [stats EXCEPT !.files_processed = @ + 1]
    /\ processed_files' = Append(processed_files, files[fi].name)
    /\ ri' = 1
    /\ pc' = "rec"
    /\ UNCHANGED <<args, dir, registry, files, fi, failed_files, clean_f, bad_f>>
    /\ UNCHANGED <<trackerVars, fnVars>>

\* one iteration of `for rec in records`
ProcessRecord ==
    /\ pc = "rec"
    /\ ri <= Len(records)
    /\ LET rec == records[ri]
           name == files[fi].name
       IN IF ~IsDict(rec)
          THEN /\ stats' = [stats EXCEPT !.records_seen = @ + 1,
                                         !.records_bad = @ + 1]
               /\ bad_f' = Append(bad_f, NotDictLine(name, schema, rec))
               /\ clean_f' = clean_f
          ELSE LET canon == transform_with_schema(rec.o, schema)
                   v == validate_canonical_record(canon)
               IN IF v.is_valid
                  THEN /\ stats' = [stats EXCEPT !.records_seen = @ + 1,
                                                 !.records_clean = @ + 1]
                       /\ clean_f' = Append(clean_f, canon)
                       /\ bad_f' = bad_f
                  ELSE /\ stats' = [stats EXCEPT !.records_seen = @ + 1,
                                                 !.records_bad = @ + 1]
                       /\ bad_f' = Append(bad_f, BadLine(name, schema, v, rec, canon))
                       /\ clean_f' = clean_f
    /\ ri' = ri + 1
    /\ UNCHANGED <<args, dir, registry, pc, files, fi, schema, records,
                   processed_files, failed_files>>
    /\ UNCHANGED <<trackerVars, fnVars>>

\* `for rec in records` is exhausted: on to the next file
EndFile ==
    /\ pc = "rec"
    /\ ri > Len(records)
    /\ fi' = fi + 1
    /\ pc' = "file"
    /\ UNCHANGED <<args, dir, registry, files, schema, records, ri, stats,
                   processed_files, failed_files, clean_f, bad_f>>
    /\ UNCHANGED <<trackerVars, fnVars>>

\* `for fp in files` is exhausted: the outputs are closed
Finish ==
    /\ pc = "file"
    /\ fi > Len(files)
    /\ pc' = "done"
    /\ UNCHANGED <<args, dir, registry, files, fi, schema, records, ri, stats,
                   processed_files, failed_files, clean_f, bad_f>>
    /\ UNCHANGED <<trackerVars, fnVars>>

MainNext ==
    \/ ListFiles
    \/ SchemaResolutionFailed
    \/ ReadFailed
    \/ ReadFile
    \/ ProcessRecord
    \/ EndFile
    \/ Finish

Spec == MainInit /\ [][MainNext]_vars

\* ------------------------------------------------------------------------
\* Properties of the run
\* ------------------------------------------------------------------------

Range(q) == {q[i] : i \in 1..Len(q)}
Count(q, x) == Cardinality({i \in 1..Len(q) : q[i] = x})
IsPrefix(p, q) == Len(p) <= Len(q) /\ SubSeq(q, 1, Len(p)) = p

RECURSIVE Flatten(_)
Flatten(qq) == IF qq = <<>> THEN <<>> ELSE Head(qq) \o Flatten(Tail(qq))

SelOk(f) == schema_for_file(f.name, args.schema_mode, args.schema_name, registry).ok
SelSchema(f) == schema_for_file(f.name, args.schema_mode, args.schema_name, registry).v
ReadOk(f) == Read(args.format, f).ok
RowsOf(f) == IF SelOk(f) /\ ReadOk(f) THEN Read(args.format, f).v ELSE <<>>

\* the rows the run has taken from the files so far
RowsTaken ==
    LET n == IF pc = "rec" THEN fi - 1 ELSE IF pc = "start" THEN 0 ELSE fi - 1
        cur == IF pc = "rec" THEN ri - 1 ELSE 0
    IN Len(Flatten([i \in 1..n |-> RowsOf(files[i])])) + cur

\* C1: a file whose schema selection fails is counted once as failed, is
\* named once in the failed files, is not among the processed files, gives no
\* line to either output, and the files after it are still handled: when the
\* run is done every listed file is either processed or failed.
C1_SelectionFailureSkipsFile ==
    /\ stats.files_failed = Len(failed_files)
    /\ stats.files_failed =
           Cardinality({i \in 1..Len(files) : i < fi /\ ~(SelOk(files[i]) /\ ReadOk(files[i]))})
    /\ Len(clean_f) + Len(bad_f) = RowsTaken
    /\ \A i \in 1..Len(files) :
          (i < fi /\ ~SelOk(files[i])) =>
             /\ Count(failed_files, files[i].name) = 1
             /\ files[i].name \notin Range(processed_files)
             /\ \A k \in 1..Len(bad_f) : bad_f[k].source_file # files[i].name
    /\ pc = "done" =>
          \A j \in 1..Len(files) :
             /\ files[j].name \in Range(processed_files) \cup Range(failed_files)
             /\ (SelOk(files[j]) /\ ReadOk(files[j])) => files[j].name \in Range(processed_files)

\* a run where a file named after no schema fails schema selection and a
\* later file is processed and writes records
C1_Witness ==
    /\ pc = "done"
    /\ \E i, j \in 1..Len(files) :
          /\ i < j
          /\ ~SelOk(files[i])
          /\ SplitFirst(Stem(files[i].name), "_") \notin DOMAIN registry
          /\ files[j].name \in Range(processed_files)
          /\ Len(RowsOf(files[j])) > 0
    /\ Len(clean_f) > 0

\* C2: a row of a JSON array that is not a mapping is quarantined with the
\* single reason "record is not an object/dict" and the other rows of the file
\* are still processed.
C2_NonDictRowQuarantined ==
    \A i \in 1..Len(files) :
       (/\ i < fi
        /\ SelOk(files[i])
        /\ pick_reader(args.format, files[i].name) = "json"
        /\ files[i].data.ok
        /\ IsList(files[i].data.v)) =>
          LET rows == files[i].data.v.a
          IN /\ files[i].name \in Range(processed_files)
             /\ \A k \in 1..Len(rows) :
                   ~IsDict(rows[k]) =>
                      \E n \in 1..Len(bad_f) :
                         bad_f[n] = NotDictLine(files[i].name, SelSchema(files[i]), rows[k])

\* the files the run lists, by the suffix of their name
Listed ==
    {f \in dir :
        \/ (args.format \in {"json", "auto"} /\ EndsWith(f.name, DotJson))
        \/ (args.format \in {"csv", "auto"} /\ EndsWith(f.name, DotCsv))}

\* the listed files in strictly ascending order of name
LexOrder ==
    CHOOSE q \in [1..Cardinality(Listed) -> Listed] :
        \A i, j \in 1..Cardinality(Listed) : i < j => StrLess(q[i].name, q[j].name)

\* where the record of a row goes and what is written
LineOf(f, rec) ==
    IF ~IsDict(rec)
    THEN [to |-> "bad", line |-> NotDictLine(f.name, SelSchema(f), rec)]
    ELSE LET canon == transform_with_schema(rec.o, SelSchema(f))
             v == validate_canonical_record(canon)
         IN IF v.is_valid THEN [to |-> "clean", line |-> canon]
            ELSE [to |-> "bad", line |-> BadLine(f.name, SelSchema(f), v, rec, canon)]

\* one entry per row of every file read, in file order then row order
ExpectedLines ==
    Flatten([i \in 1..Len(LexOrder) |->
                [k \in 1..Len(RowsOf(LexOrder[i])) |->
                    LineOf(LexOrder[i], RowsOf(LexOrder[i])[k])]])

IsClean(e) == e.to = "clean"
IsBad(e) == e.to = "bad"
LinesTo(q) == [i \in 1..Len(q) |-> q[i].line]

\* C3: every record of a file that was read gives exactly one line, to the
\* clean output iff its canonical record is valid and to the quarantine output
\* otherwise, and each output is in file order (names ascending) then row order.
C3_OneLinePerRecordInOrder ==
    /\ IsPrefix(clean_f, LinesTo(SelectSeq(ExpectedLines, IsClean)))
    /\ IsPrefix(bad_f, LinesTo(SelectSeq(ExpectedLines, IsBad)))
    /\ Len(clean_f) + Len(bad_f) = stats.records_seen
    /\ pc = "done" =>
          /\ clean_f = LinesTo(SelectSeq(ExpectedLines, IsClean))
          /\ bad_f = LinesTo(SelectSeq(ExpectedLines, IsBad))

\* a finished run over two files that were read, with lines in both outputs
C3_Witness ==
    /\ pc = "done"
    /\ Len(processed_files) >= 2
    /\ Len(clean_f) >= 2
    /\ Len(bad_f) >= 1
    /\ \E i, j \in 1..Len(files) : i < j /\ Len(RowsOf(files[i])) > 0 /\ Len(RowsOf(files[j])) > 0

\* C4: every raw record the run processes has also been handed to
\* StructureTracker.observe.
C4_EveryRecordObserved ==
    /\ Len(obs_log) = stats.records_seen
    /\ pc = "done" => \A i \in 1..Len(files) : Range(RowsOf(files[i])) \subseteq Range(obs_log)

\* C5: in by-filename mode the schema looked up for a file is the part of its
\* stem before the first underscore, the whole stem when there is none: a file
\* whose such name is a loaded schema does not fail schema resolution.
C5_StemPrefixResolves ==
    args.schema_mode = "filename" =>
       \A i \in 1..Len(files) :
          LET claimed == SplitFirst(Stem(files[i].name), "_")
          IN (i < fi /\ claimed \in DOMAIN registry /\ ReadOk(files[i])) =>
                files[i].name \in Range(processed_files)

\* row k of file i has been through the record loop
Taken(i, k) == i < fi \/ (i = fi /\ pc = "rec" /\ k < ri)

\* the value of the source field a schema maps to signup_date
MappedSignup(rec, sch) ==
    LET i == CHOOSE i \in 1..Len(sch.field_map) : sch.field_map[i][2] = "signup_date"
    IN Lookup(rec, sch.field_map[i][1])

\* the transformation cannot parse the mapped signup_date of the record
DateUnparsed(rec, sch) ==
    /\ \E i \in 1..Len(sch.field_map) : sch.field_map[i][2] = "signup_date"
    /\ ~normalize_iso_date(MappedSignup(rec, sch)).ok

\* C12: a mapping record whose mapped signup_date the transformation cannot
\* parse keeps the raw value as canonical signup_date, still gets every other
\* canonical field, is written to the quarantine output with the reason
\* "invalid signup_date" and is not written to the clean output.
C12_UnparsedDateIsQuarantined ==
    \A i \in 1..Len(files) :
       \A k \in 1..Len(RowsOf(files[i])) :
          LET rec == RowsOf(files[i])[k]
              sch == SelSchema(files[i])
          IN (Taken(i, k) /\ IsDict(rec) /\ DateUnparsed(rec.o, sch)) =>
                LET canon == transform_with_schema(rec.o, sch)
                IN /\ canon["signup_date"] = MappedSignup(rec.o, sch)
                   /\ DOMAIN canon = {"user_id", "email", "signup_date",
                                      "total_order_value", "order_count", "extras"}
                   /\ \E n \in 1..Len(bad_f) :
                         /\ bad_f[n].source_file = files[i].name
                         /\ bad_f[n].record = rec
                         /\ bad_f[n].canonical_preview = canon
                         /\ "invalid signup_date" \in Range(bad_f[n].errors)
                   /\ canon \notin Range(clean_f)

\* the rows taken so far from file i when it is counted as processed, none
\* when it is not
RowsCounted(i) ==
    IF files[i].name \notin Range(processed_files) THEN 0
    ELSE IF i < fi THEN Len(Read(args.format, files[i]).v)
    ELSE IF i = fi /\ pc = "rec" THEN ri - 1
    ELSE 0

RECURSIVE SumRows(_)
SumRows(n) == IF n = 0 THEN 0 ELSE SumRows(n - 1) + RowsCounted(n)

\* C13: between the steps of a run records_seen = records_clean +
\* records_bad and files_processed + files_failed <= files_found, no file is
\* counted both as processed and as failed, once the file loop has finished
\* files_processed + files_failed = files_found, and records_seen counts rows
\* of processed files only.
C13_CountersAgree ==
    /\ stats.records_seen = stats.records_clean + stats.records_bad
    /\ pc # "start" => stats.files_processed + stats.files_failed <= stats.files_found
    /\ stats.files_processed = Len(processed_files)
    /\ stats.files_failed = Len(failed_files)
    /\ Range(processed_files) \cap Range(failed_files) = {}
    /\ \A i \in 1..Len(files) :
          Count(processed_files, files[i].name) + Count(failed_files, files[i].name) <= 1
    /\ pc = "done" => stats.files_processed + stats.files_failed = stats.files_found
    /\ stats.records_seen = SumRows(Len(files))
    /\ \A n \in 1..Len(bad_f) : bad_f[n].source_file \notin Range(failed_files)

\* a finished run with a failed file that holds rows and a processed file
\* that gave both a clean and a quarantined record
C13_Witness ==
    /\ pc = "done"
    /\ stats.files_failed >= 1
    /\ stats.files_processed >= 1
    /\ stats.records_clean >= 1
    /\ stats.records_bad >= 1
    /\ \E i \in 1..Len(files) :
          /\ files[i].name \in Range(failed_files)
          /\ files[i].data.ok
          /\ IsList(files[i].data.v)
          /\ Len(files[i].data.v.a) > 0

\* ------------------------------------------------------------------------
\* Calls of the validation and of the transformation on their own
\* ------------------------------------------------------------------------

MaxOrders == 3      \* elements of an orders list

\* main() at rest: the calls below are made outside a run
MainIdle ==
    /\ args = [format |-> "auto", schema_mode |-> "filename", schema_name |-> <<>>]
    /\ dir = {}
    /\ registry = LoadedRegistry
    /\ pc = "idle"
    /\ files = <<>>
    /\ fi = 1
    /\ schema = NoSchema
    /\ records = <<>>
    /\ ri = 1
    /\ stats = RunStats
    /\ processed_files = <<>>
    /\ failed_files = <<>>
    /\ clean_f = <<>>
    /\ bad_f = <<>>

\* canonical records handed to the validation; "absent" leaves the key out
CanonValues ==
    [user_id : {JStr("u1"), JStr("  "), JNull, JInt(5)},
     email : {JStr("a@b.com"), JStr("nope"), JNull},
     signup_date : {JStr("2026-01-10"), JStr("not-a-date"), JNull,
                    JStr("2026-01-10T08:30:00Z")},
     total_order_value : {JFloat(0), JStr("bad"), JNull},
     order_count : {JInt(0), JInt(-1), JStr("x"), JNull, JFloat(1500)}]

K_b == <<"b">>
K_ab == <<"a", ".", "b">>
K_a_orders == <<"a", ".", "o", "r", "d", "e", "r", "s">>

\* the elements an orders list is made of
OrderElems ==
    { Amt(JStr("10.5")), Amt(JStr("bad")), Amt(JInt(4)), Amt(JFloat(4)),
      Amt(JNull), JObj(EmptyDict), JObj(K_b :> JInt(2)), JInt(7) }

OrderLists == UNION {[1..n -> OrderElems] : n \in 0..MaxOrders}

WithId(d) == (K_id :> JStr("u1")) @@ d

\* raw records handed to the transformation
RawRecords ==
    { WithId(K_orders :> JArr(q)) : q \in OrderLists }
    \cup
    { WithId(EmptyDict),
      WithId(K_orders :> JNull),
      WithId(K_orders :> JStr("x")),
      WithId(K_a :> JStr("x")),
      WithId(K_a :> JObj(K_b :> JInt(1))),
      WithId((K_a :> JObj(K_b :> JInt(1))) @@ (K_ab :> JStr("x"))),
      WithId(K_a :> JObj(K_orders :> JArr(<<Amt(JInt(4)), Amt(JStr("10.5"))>>))),
      WithId(K_a :> JObj(K_orders :> JObj(KeyAmount :> JInt(4)))) }

\* schemas handed to the transformation
RawSchemas ==
    { SchemaDef(<<"s", "1">>, << <<K_id, "user_id">>, <<K_a, "name">> >>, K_orders, <<>>),
      SchemaDef(<<"s", "2">>, << <<K_id, "user_id">>, <<K_ab, "city">> >>, K_orders, K_b),
      SchemaDef(<<"s", "3">>, << <<K_ab, "city">>, <<K_a, "addr">> >>, <<>>, <<>>),
      SchemaDef(<<"s", "4">>, <<>>, K_a_orders, <<>>) }

FnInit ==
    /\ MainIdle
    /\ TrackerIdle
    /\ \/ \E c \in CanonValues : fn_in = [fn |-> "validate", canon |-> c]
       \/ \E r \in RawRecords, sch \in RawSchemas :
             fn_in = [fn |-> "transform", rec |-> r, schema |-> sch]
    /\ fn_out = NoInput

\* v = validate_canonical_record(canon), as main() calls it, next to
\* validator.validate_canonical(canon)
ApplyValidate ==
    /\ fn_in.fn = "validate"
    /\ fn_out = NoInput
    /\ fn_out' = [fn |-> "validate",
                  applied |-> validate_canonical_record(fn_in.canon),
                  library |-> validate_canonical(fn_in.canon)]
    /\ UNCHANGED <<mainVars, trackerVars, fn_in>>

\* canon = transform_with_schema(rec, schema)
ApplyTransform ==
    /\ fn_in.fn = "transform"
    /\ fn_out = NoInput
    /\ LET run == TransformRun(fn_in.rec, fn_in.schema)
       IN fn_out' = [fn |-> "transform", canon |-> run.out, rec |-> run.rec]
    /\ UNCHANGED <<mainVars, trackerVars, fn_in>>

FnNext ==
    \/ ApplyValidate
    \/ ApplyTransform

FnSpec == FnInit /\ [][FnNext]_vars

\* the reason codes the five rules give for a canonical record
RuleUserId(c) ==
    IF IsNone(c.user_id) \/ (c.user_id.t = "str" /\ IsBlank(c.user_id.s))
    THEN <<"missing user_id">> ELSE <<>>
RuleEmail(c) ==
    IF IsNone(c.email) \/ ~HasAt(PyStr(c.email)) THEN <<"invalid email">> ELSE <<>>
RuleSignupDate(c) ==
    IF IsNone(c.signup_date) \/ ~FromIsoFormat(ReplaceZ(PyStr(c.signup_date))).ok
    THEN <<"invalid signup_date">> ELSE <<>>
RuleTotal(c) ==
    IF ~IsNone(c.total_order_value) /\ ~ToFloat(c.total_order_value).ok
    THEN <<"total_order_value not numeric">> ELSE <<>>
RuleOrderCount(c) ==
    IF IsNone(c.order_count) THEN <<>>
    ELSE IF ~ToInt(c.order_count).ok THEN <<"order_count not an integer">>
    ELSE IF ToInt(c.order_count).v < 0 THEN <<"order_count must be >= 0">>
    ELSE <<>>
RuleReasons(c) ==
    RuleUserId(c) \o RuleEmail(c) \o RuleSignupDate(c) \o RuleTotal(c) \o RuleOrderCount(c)

OnlyOrderCountNegative ==
    [user_id |-> JStr("u1"), email |-> JStr("a@b.com"),
     signup_date |-> JStr("2026-01-10"), total_order_value |-> JFloat(0),
     order_count |-> JInt(-1)]

\* C6: the validation applied to a record returns the reason code of every
\* violated rule of the five and of no other, in rule order, and is_valid iff
\* that list is empty; order_count = -1 alone gives ["order_count must be >= 0"].
C6_AppliedValidationRunsFiveRules ==
    fn_out.fn = "validate" =>
       /\ fn_out.applied.errors = RuleReasons(fn_in.canon)
       /\ fn_out.applied.is_valid = (RuleReasons(fn_in.canon) = <<>>)
       /\ fn_in.canon = OnlyOrderCountNegative =>
             fn_out.applied.errors = <<"order_count must be >= 0">>

\* what C6 says, of validator.validate_canonical (not called by main())
C6_LibraryValidationRunsFiveRules ==
    fn_out.fn = "validate" =>
       /\ fn_out.library.errors = RuleReasons(fn_in.canon)
       /\ fn_out.library.is_valid = (RuleReasons(fn_in.canon) = <<>>)

\* the source paths of a schema's field_map, without and with a dot
PlainSources(sch) ==
    {sch.field_map[i][1] : i \in {j \in 1..Len(sch.field_map) :
                                     ~Contains(sch.field_map[j][1], ".")}}
DottedSources(sch) ==
    {sch.field_map[i][1] : i \in {j \in 1..Len(sch.field_map) :
                                     Contains(sch.field_map[j][1], ".")}}
TopKey(path) == Head(Split(path, "."))

ExtrasOf(canon) == canon["extras"].o

\* the first, second and last parts of C7: no plain source path is a key of
\* extras, every other top-level key of the raw record is there with its
\* value, and the raw record is as it was
ExtrasBasics(rec, sch, canon, recAfter) ==
    /\ \A k \in PlainSources(sch) : k \notin DOMAIN ExtrasOf(canon)
    /\ \A k \in (DOMAIN rec) \ PlainSources(sch) :
          k \in DOMAIN ExtrasOf(canon) /\ ExtrasOf(canon)[k] = rec[k]
    /\ DOMAIN ExtrasOf(canon) \subseteq DOMAIN rec
    /\ recAfter = rec

\* C7 as stated: extras holds no plain source path of field_map, holds every
\* other top-level key of the raw record unchanged, and still holds the
\* top-level key of every dotted source path; the raw record is unmodified.
C7_ExtrasKeepsEveryDottedTopKey ==
    fn_out.fn = "transform" =>
       LET rec == fn_in.rec
       IN /\ ExtrasBasics(rec, fn_in.schema, fn_out.canon, fn_out.rec)
          /\ \A p \in DottedSources(fn_in.schema) :
                TopKey(p) \in DOMAIN rec => TopKey(p) \in DOMAIN ExtrasOf(fn_out.canon)

\* C7 amended: ... and still holds the top-level key of every dotted source
\* path unless that key is itself a plain source path of field_map.
C7_ExtrasKeepsUnmappedDottedTopKey ==
    fn_out.fn = "transform" =>
       LET rec == fn_in.rec
       IN /\ ExtrasBasics(rec, fn_in.schema, fn_out.canon, fn_out.rec)
          /\ \A p \in DottedSources(fn_in.schema) :
                (TopKey(p) \in DOMAIN rec /\ TopKey(p) \notin PlainSources(fn_in.schema))
                   => /\ TopKey(p) \in DOMAIN ExtrasOf(fn_out.canon)
                      /\ ExtrasOf(fn_out.canon)[TopKey(p)] = rec[TopKey(p)]

\* a transformation that removed a plain key from extras, kept another key
\* and kept the top-level key of a dotted source path
C7_Witness ==
    /\ fn_out.fn = "transform"
    /\ K_id \in PlainSources(fn_in.schema)
    /\ K_id \in DOMAIN fn_in.rec
    /\ K_id \notin DOMAIN ExtrasOf(fn_out.canon)
    /\ K_ab \in DottedSources(fn_in.schema)
    /\ K_a \in DOMAIN ExtrasOf(fn_out.canon)
    /\ K_ab \in DOMAIN ExtrasOf(fn_out.canon)
    /\ fn_out.canon["city"] = JInt(1)

\* the elements of an orders list that count: mappings whose amount is
\* present, not null and convertible to a number
Counted(q, key) ==
    {i \in 1..Len(q) :
        /\ IsDict(q[i])
        /\ key \in DOMAIN q[i].o
        /\ ~IsNone(q[i].o[key])
        /\ ToFloat(q[i].o[key]).ok}

RECURSIVE SumOver(_, _, _)
SumOver(q, key, I) ==
    IF I = {} THEN 0
    ELSE LET i == CHOOSE i \in I : TRUE
         IN ToFloat(q[i].o[key]).v + SumOver(q, key, I \ {i})

AmountKey(sch) == IF sch.order_amount_path = <<>> THEN KeyAmount ELSE sch.order_amount_path

\* C8: with orders_path set and resolving to a list, order_count is the
\* number of counted elements and total_order_value the sum of their amounts
\* rounded once; otherwise total_order_value is 0.0 and order_count is 0.
C8_AggregationCountsConvertibleAmounts ==
    fn_out.fn = "transform" =>
       LET sch == fn_in.schema
           orders == IF sch.orders_path = <<>> THEN JNull ELSE Lookup(fn_in.rec, sch.orders_path)
       IN IF IsList(orders)
          THEN /\ fn_out.canon["order_count"] = JInt(Cardinality(Counted(orders.a, AmountKey(sch))))
               /\ fn_out.canon["total_order_value"] =
                     JFloat(Round2(SumOver(orders.a, AmountKey(sch), Counted(orders.a, AmountKey(sch)))))
          ELSE /\ fn_out.canon["order_count"] = JInt(0)
               /\ fn_out.canon["total_order_value"] = JFloat(0)

\* the example of the spec: amounts "10.5", "bad", 4 give 14.5 and 2
C8_Witness ==
    /\ fn_out.fn = "transform"
    /\ fn_in.schema.orders_path = K_orders
    /\ fn_in.schema.order_amount_path = <<>>
    /\ K_orders \in DOMAIN fn_in.rec
    /\ fn_in.rec[K_orders] = JArr(<<Amt(JStr("10.5")), Amt(JStr("bad")), Amt(JInt(4))>>)
    /\ fn_out.canon["total_order_value"] = JFloat(14500)
    /\ fn_out.canon["order_count"] = JInt(2)

\* ------------------------------------------------------------------------
\* The tracker on its own: a sequence of observe calls
\* ------------------------------------------------------------------------

MaxObserve == 3     \* observe calls

K_o == <<"o">>

T_ab_int == JObj(K_a :> JObj(K_b :> JInt(1)))
T_ab_str == JObj(K_a :> JObj(K_b :> JStr("x")))
T_dotted_key == JObj(K_ab :> JBool(TRUE))
T_arr_objs == JObj(K_o :> JArr(<<JObj(K_b :> JInt(1)), JObj(K_a :> JStr("x"))>>))
T_arr_empty == JObj(K_o :> JArr(<<>>))
T_arr_mixed == JObj((K_o :> JArr(<<JInt(1), JStr("x")>>)) @@ (K_a :> JNull))
T_arr_nested == JObj(K_o :> JArr(<<JArr(<<JFloat(1500), JBool(TRUE)>>), JInt(1)>>))

\* records handed to observe
TrackerRecords ==
    {T_ab_int, T_ab_str, T_dotted_key, T_arr_objs, T_arr_empty, T_arr_mixed,
     T_arr_nested}

SourceFiles == {"f1", "f2"}

TrackerInit ==
    /\ MainIdle
    /\ FnIdle
    /\ TrackerIdle

\* tracker.observe(record, source_file)
Observe ==
    /\ Len(obs_log) < MaxObserve
    /\ \E record \in TrackerRecords, source_file \in SourceFiles :
          LET r == observe(observed, files_seen, record, source_file)
          IN /\ observed' = r.observed
             /\ files_seen' = r.files_seen
             /\ obs_log' = Append(obs_log, record)
    /\ UNCHANGED <<mainVars, fnVars>>

TrackerNext == Observe

TrackerSpec == TrackerInit /\ [][TrackerNext]_vars

\* the (path, type name) pairs a walk of the record yields
PairsOf(record) == Range(_walk(record, <<>>, 1))

\* the type names seen at a path in the observed records
TypesSeenAt(path) == {pt[2] : pt \in {x \in UNION {PairsOf(r) : r \in Range(obs_log)} : x[1] = path}}
PathsSeen == {pt[1] : pt \in UNION {PairsOf(r) : r \in Range(obs_log)}}

\* the entry of a path in a snapshot
Entry(snap, path) == {snap[i][2] : i \in {j \in 1..Len(snap) : snap[j][1] = path}}

\* C9: the tracker's map holds, for each path, exactly the set of type names
\* seen at that path in any observed record: it depends on the set of records
\* observed only (not on their order or repetition) and nothing is removed.
\* Observing {"a": {"b": 1}} then {"a": {"b": "x"}} gives "a.b": ["int", "str"].
C9_ObservedIsUnionOfTypesSeen ==
    /\ DOMAIN observed = PathsSeen
    /\ \A path \in DOMAIN observed : observed[path] = TypesSeenAt(path)
    /\ obs_log = <<T_ab_int, T_ab_str>> => Entry(snapshot(observed), K_ab) = {<<"int", "str">>}

\* the same record observed twice with another one in between, and a path
\* with two type names
C9_Witness ==
    /\ obs_log = <<T_ab_str, T_ab_int, T_ab_str>>
    /\ observed[K_ab] = {"int", "str"}
    /\ Entry(snapshot(observed), K_ab) = {<<"int", "str">>}

ShownPath(p) == IF p # <<>> THEN p ELSE Dollar

\* the pairs a value at path p contributes, where the first element of a
\* sequence at p is walked with prefix p (own) or with prefix p[] (not own)
RECURSIVE Contribution(_, _, _)
Contribution(v, p, own) ==
    {<<ShownPath(p), _type_name(v)>>}
    \cup (IF IsDict(v)
          THEN UNION {Contribution(v.o[k], KeyPath(p, k), own) : k \in DOMAIN v.o}
          ELSE {})
    \cup (IF IsList(v)
          THEN {<<ShownPath(p), "array">>, <<ShownPath(p) \o Brackets, "array">>}
               \cup (IF v.a # <<>>
                     THEN Contribution(v.a[1],
                                       IF own THEN p ELSE ShownPath(p) \o Brackets, own)
                     ELSE {})
          ELSE {})

ObservedPairs == UNION {{<<path, t>> : t \in observed[path]} : path \in DOMAIN observed}

\* C10 as stated: a sequence at path p gives "array" at p and at p[], and its
\* first element alone is walked, with the sequence's own path p as prefix;
\* later elements give nothing and an empty sequence gives the two entries only.
C10_FirstElementWalkedAtOwnPath ==
    ObservedPairs = UNION {Contribution(r, <<>>, TRUE) : r \in Range(obs_log)}

\* C10 amended: ... its first element alone is walked, with p[] as prefix (so
\* the element's own type name is recorded at p[] next to "array" and its
\* keys at p[].key).
C10_FirstElementWalkedAtBracketPath ==
    ObservedPairs = UNION {Contribution(r, <<>>, FALSE) : r \in Range(obs_log)}

\* observed a sequence whose elements differ, an empty one and a nested one
C10_Witness ==
    /\ Range(obs_log) = {T_arr_objs, T_arr_empty, T_arr_nested}
    /\ observed[K_o] = {"array"}
    /\ observed[K_o \o Brackets] = {"array", "object"}
    /\ observed[K_o \o Brackets \o <<".">> \o K_b] = {"int"}
    /\ (K_o \o Brackets \o <<".">> \o K_a) \notin DOMAIN observed
    /\ observed[K_o \o Brackets \o Brackets] = {"array", "float"}

\* ------------------------------------------------------------------------
\* SchemaTracker.diff on its own
\* ------------------------------------------------------------------------

\* the paths and the type lists of the snapshots handed to diff; a baseline
\* is read from a file, so a list need not be sorted
DiffPaths == {Dollar, K_a, K_ab, K_o \o Brackets}
DiffTypeLists == {<<"int">>, <<"int", "str">>, <<"str", "int">>}

Snapshots == UNION {[D -> DiffTypeLists] : D \in SUBSET DiffPaths}

DiffInit ==
    /\ MainIdle
    /\ TrackerIdle
    /\ \E b \in Snapshots, c \in Snapshots :
          fn_in = [fn |-> "diff", baseline |-> b, current |-> c]
    /\ fn_out = NoInput

\* SchemaTracker.diff(baseline, current) and the call with the two swapped
ApplyDiff ==
    /\ fn_in.fn = "diff"
    /\ fn_out = NoInput
    /\ fn_out' = [fn |-> "diff",
                  result |-> diff(fn_in.baseline, fn_in.current),
                  swapped |-> diff(fn_in.current, fn_in.baseline)]
    /\ UNCHANGED <<mainVars, trackerVars, fn_in>>

DiffNext == ApplyDiff

DiffSpec == DiffInit /\ [][DiffNext]_vars

\* a list of paths in strictly ascending lexicographic order
Ascending(q) == \A i, j \in 1..Len(q) : i < j => StrLess(q[i], q[j])

ChangePaths(d) == [i \in 1..Len(d.type_changes) |-> d.type_changes[i].path]

\* the type_changes entries with the two sides exchanged
Exchanged(tc) ==
    [i \in 1..Len(tc) |->
        [path |-> tc[i].path, baseline_types |-> tc[i].current_types,
         current_types |-> tc[i].baseline_types]]

\* C11: swapping baseline and current swaps new_paths and missing_paths and
\* gives the type changes of the same paths with the two type lists
\* exchanged; diff(S, S) has three empty lists; the three lists are in
\* lexicographic order of path.
C11_DiffSwapsAndIsSorted ==
    fn_out.fn = "diff" =>
       /\ fn_out.swapped.new_paths = fn_out.result.missing_paths
       /\ fn_out.swapped.missing_paths = fn_out.result.new_paths
       /\ fn_out.swapped.type_changes = Exchanged(fn_out.result.type_changes)
       /\ ListSet(fn_out.result.new_paths) = (DOMAIN fn_in.current) \ (DOMAIN fn_in.baseline)
       /\ ListSet(fn_out.result.missing_paths) = (DOMAIN fn_in.baseline) \ (DOMAIN fn_in.current)
       /\ fn_in.baseline = fn_in.current =>
             /\ fn_out.result.new_paths = <<>>
             /\ fn_out.result.missing_paths = <<>>
             /\ fn_out.result.type_changes = <<>>
       /\ Ascending(fn_out.result.new_paths)
       /\ Ascending(fn_out.result.missing_paths)
       /\ Ascending(ChangePaths(fn_out.result))

\* a diff with two new paths, a missing path and a type change, whose
\* baseline holds an unsorted type list
C11_Witness ==
    /\ fn_out.fn = "diff"
    /\ \E k \in DOMAIN fn_in.baseline : fn_in.baseline[k] = <<"str", "int">>
    /\ Len(fn_out.result.new_paths) = 2
    /\ Len(fn_out.result.missing_paths) = 1
    /\ Len(fn_out.result.type_changes) = 1
    /\ fn_out.swapped.type_changes[1].baseline_types = <<"int", "str">>
    /\ fn_out.swapped.type_changes[1].current_types = <<"int">>

====
